---- MODULE Spec2Model ----
(***************************************************************************)
(* PlutoxAI Telegram bot: the per-turn handlers of src/api/bot.js and of   *)
(* its two transport variants (src/unnamed/part_000, long polling, and     *)
(* src/unnamed/part_001, webhook), over the Supabase tables "users" and    *)
(* "messages".  A text is a sequence of one-character strings, so that     *)
(* toLowerCase and includes are computed, not assumed.  Every await of a   *)
(* handler is one step of its turn; turns interleave at the awaits.        *)
(***************************************************************************)
EXTENDS Naturals, Sequences, FiniteSets

VARIABLES users, messages, turn, started, faults, variant, probe

vars == <<users, messages, turn, started, faults, variant, probe>>

\* ---------------------------------------------------------------- bounds
MaxTurns == 2
MaxFaults == 1
MaxSeed == 6

\* ------------------------------------------------------- program constants
MemoryLimit == 5

\* The fixed texts of the program, one character per element; a character
\* outside ASCII is written as its code point ("U+26A0").

SystemPrompt ==
    <<"Y", "o", "u", " ", "a", "r", "e", " ", "P", "l", "u", "t",
      "o", "x", "A", "I", ",", " ", "a", " ", "h", "e", "l", "p",
      "f", "u", "l", " ", "f", "r", "i", "e", "n", "d", "l", "y",
      " ", "a", "s", "s", "i", "s", "t", "a", "n", "t", ".">>

SystemPromptTs ==
    <<"Y", "o", "u", " ", "a", "r", "e", " ", "P", "l", "u", "t",
      "o", "x", "A", "I", ",", " ", "a", " ", "f", "r", "i", "e",
      "n", "d", "l", "y", ",", " ", "h", "e", "l", "p", "f", "u",
      "l", " ", "a", "s", "s", "i", "s", "t", "a", "n", "t", ".">>

creatorReply ==
    <<"U+1F916", " ", "I", " ", "w", "a", "s", " ", "c", "r", "e", "a",
      "t", "e", "d", " ", "b", "y", " ", "*", "P", "l", "u", "t",
      "o", "x", "o", "f", "W", "e", "b", "3", "*", ".", "\n", "\n",
      "C", "o", "n", "n", "e", "c", "t", " ", "w", "i", "t", "h",
      " ", "t", "h", "e", " ", "c", "r", "e", "a", "t", "o", "r",
      ":", "\n", "U+2022", " ", "X", ":", " ", "@", "P", "l", "u", "t",
      "o", "x", "o", "f", "w", "e", "b", "3", "\n", "U+2022", " ", "T",
      "e", "l", "e", "g", "r", "a", "m", ":", " ", "@", "P", "l",
      "u", "t", "o", "x", "W", "e", "b", "3">>

ImageCaption ==
    <<"U+1F5BC", " ", "H", "e", "r", "e", "U+2019", "s", " ", "y", "o", "u",
      "r", " ", "A", "I", "-", "g", "e", "n", "e", "r", "a", "t",
      "e", "d", " ", "i", "m", "a", "g", "e", "!">>

ImageFailReply ==
    <<"U+26A0", "U+FE0F", " ", "F", "a", "i", "l", "e", "d", " ", "t", "o",
      " ", "g", "e", "n", "e", "r", "a", "t", "e", " ", "t", "h",
      "e", " ", "i", "m", "a", "g", "e", ".", " ", "T", "r", "y",
      " ", "a", "g", "a", "i", "n", " ", "l", "a", "t", "e", "r",
      ".">>

ImageFailMarker ==
    <<"U+26A0", "U+FE0F", " ", "F", "a", "i", "l", "e", "d", " ", "t", "o",
      " ", "g", "e", "n", "e", "r", "a", "t", "e", " ", "i", "m",
      "a", "g", "e">>

NoResponse ==
    <<"U+26A0", "U+FE0F", " ", "A", "I", " ", "r", "e", "t", "u", "r", "n",
      "e", "d", " ", "n", "o", " ", "r", "e", "s", "p", "o", "n",
      "s", "e", ".">>

AiIssue ==
    <<"U+26A0", "U+FE0F", " ", "A", "I", " ", "e", "n", "c", "o", "u", "n",
      "t", "e", "r", "e", "d", " ", "a", "n", " ", "i", "s", "s",
      "u", "e", ".", " ", "P", "l", "e", "a", "s", "e", " ", "t",
      "r", "y", " ", "a", "g", "a", "i", "n", ".">>

WelcomeText ==
    <<"U+1F44B", " ", "W", "e", "l", "c", "o", "m", "e", " ", "t", "o",
      " ", "P", "l", "u", "t", "o", "x", "A", "I", "!", "\n", "Y",
      "o", "u", "r", " ", "s", "m", "a", "r", "t", " ", "A", "I",
      " ", "a", "s", "s", "i", "s", "t", "a", "n", "t", ".">>

WelcomeCaption ==
    <<"U+1F44B", " ", "*", "W", "e", "l", "c", "o", "m", "e", " ", "t",
      "o", " ", "P", "l", "u", "t", "o", "x", "A", "I", "!", "*",
      "\n", "\n", "Y", "o", "u", "r", " ", "s", "m", "a", "r", "t",
      " ", "A", "I", " ", "a", "s", "s", "i", "s", "t", "a", "n",
      "t", ".", "\n", "T", "a", "p", " ", "t", "h", "e", " ", "b",
      "u", "t", "t", "o", "n", " ", "b", "e", "l", "o", "w", " ",
      "t", "o", " ", "b", "e", "g", "i", "n", ":">>

TxtDraw ==
    <<"D", "r", "a", "w", " ", "m", "e", " ", "a", " ", "c", "a",
      "t">>

TxtWeather ==
    <<"W", "h", "a", "t", "'", "s", " ", "t", "h", "e", " ", "w",
      "e", "a", "t", "h", "e", "r">>

TxtBoth ==
    <<"p", "l", "e", "a", "s", "e", " ", "d", "r", "a", "w", " ",
      "w", "h", "o", " ", "c", "r", "e", "a", "t", "e", "d", " ",
      "y", "o", "u">>

TxtHello ==
    <<"h", "e", "l", "l", "o">>

HiThere ==
    <<"H", "i", " ", "t", "h", "e", "r", "e", "!">>

SomeUrl ==
    <<"h", "t", "t", "p", "s", ":", "/", "/", "i", "m", "g", ".",
      "e", "x", "a", "m", "p", "l", "e", "/", "1", ".", "p", "n",
      "g">>

\* The absent value of JavaScript (null / undefined) among texts: no text
\* holds a character of more than one letter, so Null is none of them.
Null == <<"null">>

\* A JavaScript value used as a condition: null, undefined and "" are falsy.
Truthy(v) == v # Null /\ v # <<>>

\* ------------------------------------------------------------ strings
UpperAlpha ==
    <<"A", "B", "C", "D", "E", "F", "G", "H", "I", "J", "K", "L", "M",
      "N", "O", "P", "Q", "R", "S", "T", "U", "V", "W", "X", "Y", "Z">>

LowerAlpha ==
    <<"a", "b", "c", "d", "e", "f", "g", "h", "i", "j", "k", "l", "m",
      "n", "o", "p", "q", "r", "s", "t", "u", "v", "w", "x", "y", "z">>

LowerChar(c) ==
    IF \E i \in 1..Len(UpperAlpha) : UpperAlpha[i] = c
    THEN LowerAlpha[CHOOSE i \in 1..Len(UpperAlpha) : UpperAlpha[i] = c]
    ELSE c

\* (a handler that matches the text as typed)
toLowerCaseAsTyped(s) == s

\* String.prototype.toLowerCase
toLowerCase(s) == [i \in 1..Len(s) |-> LowerChar(s[i])]

\* String.prototype.includes
includes(s, w) ==
    \E i \in 0..Len(s) :
        /\ i + Len(w) <= Len(s)
        /\ SubSeq(s, i + 1, i + Len(w)) = w

KwWhoCreatedYou ==
    <<"w", "h", "o", " ", "c", "r", "e", "a", "t", "e", "d", " ", "y", "o", "u">>

KwCreator == <<"c", "r", "e", "a", "t", "o", "r">>

KwWhoMadeYou == <<"w", "h", "o", " ", "m", "a", "d", "e", " ", "y", "o", "u">>

imageKeywords ==
    << <<"i", "m", "a", "g", "e">>,
       <<"p", "h", "o", "t", "o">>,
       <<"p", "i", "c", "t", "u", "r", "e">>,
       <<"s", "h", "o", "w", " ", "m", "e">>,
       <<"d", "r", "a", "w">>,
       <<"g", "e", "n", "e", "r", "a", "t", "e">> >>

\* The creator condition of the text handler, on the lower-cased text.
isCreatorQuestion(lowerText) ==
    \/ includes(lowerText, KwWhoCreatedYou)
    \/ includes(lowerText, KwCreator)
    \/ includes(lowerText, KwWhoMadeYou)

\* imageKeywords.some(word => lowerText.includes(word))
wantsImage(lowerText) ==
    \E k \in 1..Len(imageKeywords) : includes(lowerText, imageKeywords[k])

\* (a handler that detects the image request before the creator question)
ClassifyImageFirst(lowerText) ==
    IF wantsImage(lowerText) THEN "image"
    ELSE IF isCreatorQuestion(lowerText) THEN "creator"
    ELSE "text"

\* The branch the text handler takes once the typing indicator is sent: the
\* creator check comes first, then the image detection.
Classify(lowerText) ==
    IF isCreatorQuestion(lowerText) THEN "creator"
    ELSE IF wantsImage(lowerText) THEN "image"
    ELSE "text"

\* -------------------------------------------------------------- store
Reverse(s) == [i \in 1..Len(s) |-> s[Len(s) + 1 - i]]

Limit(s, n) == SubSeq(s, 1, IF Len(s) < n THEN Len(s) ELSE n)

\* users: select("id").eq("id", id).single() -- the rows found.
selectUser(us, id) == {u \in us : u.id = id}

\* (an insert that overwrites the row stored under the same id)
insertUserUpsert(us, row) ==
    {u \in us : u.id # row.id} \cup {row}

\* users: insert(row).  The id column is the table's key: a second row with
\* a stored id is rejected.
insertUser(us, row) ==
    IF \E u \in us : u.id = row.id THEN us ELSE us \cup {row}

\* (an insert that puts the new row ahead of the stored ones)
insertMessageFirst(msgs, user_id, role, content) ==
    <<[user_id |-> user_id, role |-> role, content |-> content]>> \o msgs

\* messages: insert({user_id, role, content}); the store numbers the rows in
\* insertion order (the position in the sequence is the row's id).
insertMessage(msgs, user_id, role, content) ==
    Append(msgs, [user_id |-> user_id, role |-> role, content |-> content])

\* (a query without the filter on user_id)
queryRecentAnyUser(msgs, user_id) ==
    LET cols == [i \in 1..Len(msgs) |->
                    [role |-> msgs[i].role, content |-> msgs[i].content]]
    IN  Limit(Reverse(cols), MemoryLimit)

\* messages: select("role, content").eq("user_id", id)
\*           .order("id", {ascending: false}).limit(5)
queryRecent(msgs, user_id) ==
    LET mine == SelectSeq(msgs, LAMBDA m : m.user_id = user_id)
        cols == [i \in 1..Len(mine) |->
                    [role |-> mine[i].role, content |-> mine[i].content]]
    IN  Limit(Reverse(cols), MemoryLimit)

\* (a getConversationMemory that returns rows whatever the query's outcome)
getConversationMemoryAnyway(msgs, user_id, ok) ==
    Reverse(queryRecent(msgs, user_id))

\* (a getConversationMemory that keeps the newest row first)
getConversationMemoryNewestFirst(msgs, user_id, ok) ==
    IF ok THEN queryRecent(msgs, user_id) ELSE <<>>

\* getConversationMemory: data?.reverse() || []  (data is null when the
\* query failed).
getConversationMemory(msgs, user_id, ok) ==
    IF ok THEN Reverse(queryRecent(msgs, user_id)) ELSE <<>>

\* ------------------------------------------------------------- variants
Variants == {"api_bot", "part_000", "part_001"}

systemPrompt(v) == IF v = "part_001" THEN SystemPromptTs ELSE SystemPrompt

\* generateAIResponse: the messages array sent to the chat backend.
\* (a messages array that ends with the history)
buildMessagesHistoryOnly(v, memory, text) ==
    <<[role |-> "system", content |-> systemPrompt(v)]>> \o memory

\* generateAIResponse: the messages array posted to the chat backend.
buildMessages(v, memory, text) ==
    <<[role |-> "system", content |-> systemPrompt(v)]>>
        \o memory
        \o <<[role |-> "user", content |-> text]>>

\* (a generateAIResponse without the "|| warning" of its return)
aiResponseResultRaw(threw, content) == IF threw THEN AiIssue ELSE content

\* generateAIResponse: what it returns for an outcome of axios.post.
aiResponseResult(threw, content) ==
    IF threw THEN AiIssue
    ELSE IF Truthy(content) THEN content ELSE NoResponse

\* generateAIImage: what it returns for an outcome of axios.post.
aiImageResult(threw, url) ==
    IF threw THEN Null
    ELSE IF Truthy(url) THEN url ELSE Null

\* ---------------------------------------------------------------- inputs
Ann == [id |-> 1, username |-> "ann", first_name |-> "Ann"]

Bob == [id |-> 2, username |-> "bob", first_name |-> "Bob"]

\* Ann after she changed her username and first name on the platform.
AnnRenamed == [id |-> 1, username |-> "ann_x", first_name |-> "Anna"]

Profiles == {Ann, Bob}

StartProfiles == {Ann, Bob, AnnRenamed}

Texts == {TxtDraw, TxtWeather, TxtBoth}

\* The store when the process starts: empty, or Ann's earlier conversation
\* (her messages m1, m2, ... and the bot's answers r1, r2, ...) up to some row.
Digits == <<"1", "2", "3", "4", "5", "6", "7", "8", "9">>

SeedRow(i) ==
    [ user_id |-> Ann.id,
      role |-> IF i % 2 = 1 THEN "user" ELSE "bot",
      content |-> <<IF i % 2 = 1 THEN "m" ELSE "r", Digits[(i + 1) \div 2]>> ]

SeedHistory(n) == [i \in 1..n |-> SeedRow(i)]

SeedLens == {0, MaxSeed \div 2, MaxSeed}

\* Outcomes of a store or transport call: it succeeds, or (while the budget
\* of failures lasts) it fails.
Oks == IF faults < MaxFaults THEN BOOLEAN ELSE {TRUE}

\* Responses of the chat backend: a completion, an empty completion, a body
\* without choices, or a failed request.
ChatOutcomes ==
    {[threw |-> FALSE, content |-> HiThere]} \cup
    (IF faults < MaxFaults
     THEN { [threw |-> FALSE, content |-> <<>>],
            [threw |-> FALSE, content |-> Null],
            [threw |-> TRUE, content |-> Null] }
     ELSE {})

\* Responses of the image backend: a url, a body without url, a failed request.
ImageOutcomes ==
    {[threw |-> FALSE, url |-> SomeUrl]} \cup
    (IF faults < MaxFaults
     THEN { [threw |-> FALSE, url |-> Null],
            [threw |-> TRUE, url |-> Null] }
     ELSE {})

\* ------------------------------------------------------------------ turns
TurnIds == 1..MaxTurns

NoFrom == [id |-> 0, username |-> "", first_name |-> ""]

IdleTurn ==
    [ kind |-> "none", from |-> NoFrom, text |-> <<>>, lowerText |-> <<>>,
      pc |-> "idle", data |-> {}, imageUrl |-> Null, memory |-> <<>>,
      context |-> <<>>, reply |-> Null, seen |-> <<>>, rowSeen |-> {},
      log |-> <<>> ]

\* One call a turn made on a collaborator, with its outcome: ok says that the
\* call returned without an error; extra is the caption of a photo, the
\* content a backend returned, or the error code of a rejected insert.
Ev(op, role, content, extra, ok) ==
    [op |-> op, role |-> role, content |-> content, extra |-> extra, ok |-> ok]

Finished(t) == turn[t].pc \in {"done", "aborted"}

\* saveMessage: the insert's error, if any, is returned and never looked at.
saveMessage(msgs, user_id, role, content, ok) ==
    IF ok THEN insertMessage(msgs, user_id, role, content) ELSE msgs

\* (a store call whose error is thrown into the handler)
afterStoreCallThrowing(next, ok) == IF ok THEN next ELSE "aborted"

\* Where a handler goes on after an awaited supabase call: the call returns
\* {data, error} and the error is never looked at.
afterStoreCall(next, ok) == next

\* The error code of an insert that the key of the users table rejects.
UniqueViolation == <<"2", "3", "5", "0", "5">>

\* (a registerUser that inserts whatever the lookup returned)
needsInsertAlways(data) == data = data

\* registerUser: if (!data)
needsInsert(data) == data = {}

\* (a handler that went from registerUser to the typing indicator)
AfterRegisterSkipSave(kind) == IF kind = "text" THEN "typing" ELSE "welcome"

\* Where a handler goes on after registerUser.
AfterRegister(kind) == IF kind = "text" THEN "saveUserMessage" ELSE "welcome"

\* The await the text handler reaches after the typing indicator.
\* (a dispatch that sends every message that is not the creator question to
\* the chat backend)
AfterTypingChatOnly(lowerText) ==
    IF Classify(lowerText) = "creator" THEN "creatorReply" ELSE "getMemory"

\* The branch the handler takes once the typing indicator is out.
AfterTyping(lowerText) ==
    LET path == Classify(lowerText)
    IN  IF path = "creator" THEN "creatorReply"
        ELSE IF path = "image" THEN "generateImage"
        ELSE "getMemory"

\* What the image branch replies: the photo with its caption, or the notice.
imageReplyEvent(imageUrl, ok) ==
    IF Truthy(imageUrl)
    THEN Ev("replyWithPhoto", "", imageUrl, ImageCaption, ok)
    ELSE Ev("reply", "", ImageFailReply, <<>>, ok)

\* (an image branch that stores imageUrl whatever it is)
imageBotContentUrl(imageUrl) == imageUrl

\* What the image branch stores as the bot's message.
imageBotContent(imageUrl) ==
    IF Truthy(imageUrl) THEN imageUrl ELSE ImageFailMarker

\* Whether the handler is over once the last reply is handed to the
\* transport: part_000 does not await it, the others throw when it fails.
afterSendReply(v, ok) == IF ok \/ v = "part_000" THEN "done" ELSE "aborted"

\* ---------------------------------------------------------------- actions
NoProbe == [done |-> FALSE, text |-> <<>>, lowerText |-> <<>>, wantsImage |-> FALSE]

Init ==
    /\ \E n \in SeedLens :
          /\ messages = SeedHistory(n)
          /\ users = IF n = 0 THEN {} ELSE {Ann}
    /\ turn = [t \in TurnIds |-> IdleTurn]
    /\ started = 0
    /\ faults = 0
    /\ variant \in Variants
    /\ probe = NoProbe

\* bot.on("text"): an update with a text message arrives.
ReceiveText(t) ==
    /\ t = started + 1
    /\ \E from \in Profiles, text \in Texts :
          turn' = [turn EXCEPT ![t] =
                      [IdleTurn EXCEPT !.kind = "text", !.from = from,
                                       !.text = text,
                                       !.lowerText = toLowerCase(text),
                                       !.pc = "registerUser"]]
    /\ started' = t
    /\ UNCHANGED <<users, messages, faults, variant, probe>>

\* bot.start: a /start command arrives.
ReceiveStart(t) ==
    /\ t = started + 1
    /\ \E from \in StartProfiles :
          turn' = [turn EXCEPT ![t] =
                      [IdleTurn EXCEPT !.kind = "start", !.from = from,
                                       !.pc = "registerUser"]]
    /\ started' = t
    /\ UNCHANGED <<users, messages, faults, variant, probe>>

\* registerUser: the lookup of the user's row.
RegisterLookup(t) ==
    /\ turn[t].pc = "registerUser"
    /\ \E ok \in Oks :
          LET data == IF ok THEN selectUser(users, turn[t].from.id) ELSE {}
          IN  /\ turn' = [turn EXCEPT
                    ![t].data = data,
                    ![t].rowSeen = selectUser(users, turn[t].from.id),
                    ![t].log = Append(@, Ev("findUser", "", <<>>, <<>>, ok)),
                    ![t].pc = afterStoreCall(
                                 IF needsInsert(data) THEN "insertUser"
                                 ELSE AfterRegister(turn[t].kind), ok)]
              /\ faults' = IF ok THEN faults ELSE faults + 1
    /\ UNCHANGED <<users, messages, started, variant, probe>>

\* registerUser: the insert of the row, when the lookup returned no data.
RegisterInsert(t) ==
    /\ turn[t].pc = "insertUser"
    /\ \E ok \in Oks :
          /\ users' = IF ok THEN insertUser(users, turn[t].from) ELSE users
          /\ turn' = [turn EXCEPT
                ![t].log = Append(@,
                    IF ok /\ users' = users
                    THEN Ev("insertUser", "", <<>>, UniqueViolation, FALSE)
                    ELSE Ev("insertUser", "", <<>>, <<>>, ok)),
                ![t].pc = afterStoreCall(AfterRegister(turn[t].kind), ok)]
          /\ faults' = IF ok THEN faults ELSE faults + 1
    /\ UNCHANGED <<messages, started, variant, probe>>

\* saveMessage(user_id, "user", text)
SaveUserMessage(t) ==
    /\ turn[t].pc = "saveUserMessage"
    /\ \E ok \in Oks :
          /\ messages' = saveMessage(messages, turn[t].from.id, "user",
                                     turn[t].text, ok)
          /\ turn' = [turn EXCEPT
                ![t].log = Append(@, Ev("saveMessage", "user", turn[t].text,
                                        <<>>, ok)),
                ![t].pc = afterStoreCall("typing", ok)]
          /\ faults' = IF ok THEN faults ELSE faults + 1
    /\ UNCHANGED <<users, started, variant, probe>>

\* ctx.sendChatAction("typing"), then the creator check and the image
\* detection up to the next await.
SendTyping(t) ==
    /\ turn[t].pc = "typing"
    /\ \E ok \in Oks :
          /\ turn' = [turn EXCEPT
                ![t].log = Append(@, Ev("sendChatAction", "", <<>>, <<>>, ok)),
                ![t].pc = IF ok THEN AfterTyping(turn[t].lowerText)
                          ELSE "aborted"]
          /\ faults' = IF ok THEN faults ELSE faults + 1
    /\ UNCHANGED <<users, messages, started, variant, probe>>

\* creator branch: ctx.reply(creatorReply, {parse_mode: "Markdown"})
CreatorReply(t) ==
    /\ turn[t].pc = "creatorReply"
    /\ \E ok \in Oks :
          /\ turn' = [turn EXCEPT
                ![t].log = Append(@, Ev("reply", "", creatorReply, <<>>, ok)),
                ![t].pc = IF ok THEN "creatorSave" ELSE "aborted"]
          /\ faults' = IF ok THEN faults ELSE faults + 1
    /\ UNCHANGED <<users, messages, started, variant, probe>>

\* creator branch: saveMessage(user_id, "bot", creatorReply); return
CreatorSave(t) ==
    /\ turn[t].pc = "creatorSave"
    /\ \E ok \in Oks :
          /\ messages' = saveMessage(messages, turn[t].from.id, "bot",
                                     creatorReply, ok)
          /\ turn' = [turn EXCEPT
                ![t].log = Append(@, Ev("saveMessage", "bot", creatorReply,
                                        <<>>, ok)),
                ![t].pc = afterStoreCall("done", ok)]
          /\ faults' = IF ok THEN faults ELSE faults + 1
    /\ UNCHANGED <<users, started, variant, probe>>

\* image branch: imageUrl = await generateAIImage(text)
GenerateImage(t) ==
    /\ turn[t].pc = "generateImage"
    /\ \E out \in ImageOutcomes :
          /\ turn' = [turn EXCEPT
                ![t].imageUrl = aiImageResult(out.threw, out.url),
                ![t].log = Append(@, Ev("generateAIImage", "", turn[t].text,
                                        out.url, ~out.threw)),
                ![t].pc = "imageReply"]
          /\ faults' = IF out.url = SomeUrl THEN faults ELSE faults + 1
    /\ UNCHANGED <<users, messages, started, variant, probe>>

\* image branch: ctx.replyWithPhoto(imageUrl, caption) or ctx.reply(notice)
ImageReply(t) ==
    /\ turn[t].pc = "imageReply"
    /\ \E ok \in Oks :
          /\ turn' = [turn EXCEPT
                ![t].log = Append(@, imageReplyEvent(turn[t].imageUrl, ok)),
                ![t].pc = IF ok THEN "imageSave" ELSE "aborted"]
          /\ faults' = IF ok THEN faults ELSE faults + 1
    /\ UNCHANGED <<users, messages, started, variant, probe>>

\* image branch: saveMessage(user_id, "bot", imageUrl or the marker); return
ImageSave(t) ==
    /\ turn[t].pc = "imageSave"
    /\ \E ok \in Oks :
          LET content == imageBotContent(turn[t].imageUrl)
          IN  /\ messages' = saveMessage(messages, turn[t].from.id, "bot",
                                         content, ok)
              /\ turn' = [turn EXCEPT
                    ![t].log = Append(@, Ev("saveMessage", "bot", content,
                                            <<>>, ok)),
                    ![t].pc = afterStoreCall("done", ok)]
              /\ faults' = IF ok THEN faults ELSE faults + 1
    /\ UNCHANGED <<users, started, variant, probe>>

\* generateAIResponse: memory = await getConversationMemory(user_id); the
\* messages array is built and posted to the chat backend.
GetMemory(t) ==
    /\ turn[t].pc = "getMemory"
    /\ \E ok \in Oks :
          LET memory == getConversationMemory(messages, turn[t].from.id, ok)
          IN  /\ turn' = [turn EXCEPT
                    ![t].memory = memory,
                    ![t].context = buildMessages(variant, memory, turn[t].text),
                    ![t].seen = messages,
                    ![t].log = Append(@, Ev("getConversationMemory", "", <<>>,
                                            <<>>, ok)),
                    ![t].pc = "chatResponse"]
              /\ faults' = IF ok THEN faults ELSE faults + 1
    /\ UNCHANGED <<users, messages, started, variant, probe>>

\* generateAIResponse: the chat backend answers (or the request fails);
\* reply = what generateAIResponse returns.
ChatResponse(t) ==
    /\ turn[t].pc = "chatResponse"
    /\ \E out \in ChatOutcomes :
          /\ turn' = [turn EXCEPT
                ![t].reply = aiResponseResult(out.threw, out.content),
                ![t].log = Append(@, Ev("generateAIResponse", "", turn[t].text,
                                        out.content, ~out.threw)),
                ![t].pc = "saveReply"]
          /\ faults' = IF out.content = HiThere THEN faults ELSE faults + 1
    /\ UNCHANGED <<users, messages, started, variant, probe>>

\* text branch: saveMessage(user_id, "bot", reply)
SaveReply(t) ==
    /\ turn[t].pc = "saveReply"
    /\ \E ok \in Oks :
          /\ messages' = saveMessage(messages, turn[t].from.id, "bot",
                                     turn[t].reply, ok)
          /\ turn' = [turn EXCEPT
                ![t].log = Append(@, Ev("saveMessage", "bot", turn[t].reply,
                                        <<>>, ok)),
                ![t].pc = afterStoreCall("sendReply", ok)]
          /\ faults' = IF ok THEN faults ELSE faults + 1
    /\ UNCHANGED <<users, started, variant, probe>>

\* text branch: ctx.reply(reply)
SendReply(t) ==
    /\ turn[t].pc = "sendReply"
    /\ \E ok \in Oks :
          /\ turn' = [turn EXCEPT
                ![t].log = Append(@, Ev("reply", "", turn[t].reply, <<>>, ok)),
                ![t].pc = afterSendReply(variant, ok)]
          /\ faults' = IF ok THEN faults ELSE faults + 1
    /\ UNCHANGED <<users, messages, started, variant, probe>>

\* bot.start: the welcome, as a photo with its caption; src/api/bot.js sends
\* the plain text when its banner file is missing.
Welcome(t) ==
    /\ turn[t].pc = "welcome"
    /\ \E ok \in Oks, banner \in BOOLEAN :
          /\ banner \/ variant = "api_bot"
          /\ turn' = [turn EXCEPT
                ![t].log = Append(@,
                    IF banner
                    THEN Ev("replyWithPhoto", "", <<>>, WelcomeCaption, ok)
                    ELSE Ev("reply", "", WelcomeText, <<>>, ok)),
                ![t].pc = IF ok THEN "done" ELSE "aborted"]
          /\ faults' = IF ok THEN faults ELSE faults + 1
    /\ UNCHANGED <<users, messages, started, variant, probe>>

Next ==
    \E t \in TurnIds :
        \/ ReceiveText(t)
        \/ ReceiveStart(t)
        \/ RegisterLookup(t)
        \/ RegisterInsert(t)
        \/ SaveUserMessage(t)
        \/ SendTyping(t)
        \/ CreatorReply(t)
        \/ CreatorSave(t)
        \/ GenerateImage(t)
        \/ ImageReply(t)
        \/ ImageSave(t)
        \/ GetMemory(t)
        \/ ChatResponse(t)
        \/ SaveReply(t)
        \/ SendReply(t)
        \/ Welcome(t)

Spec == Init /\ [][Next]_vars

\* No handler is running: every update delivered so far has been handled.
Quiet == \A u \in TurnIds : turn[u].pc = "idle" \/ Finished(u)

\* The transport hands over one update at a time: the next one arrives when
\* the handler of the one before has returned or thrown.
SerialNext ==
    \E t \in TurnIds :
        \/ Quiet /\ ReceiveText(t)
        \/ Quiet /\ ReceiveStart(t)
        \/ RegisterLookup(t)
        \/ RegisterInsert(t)
        \/ SaveUserMessage(t)
        \/ SendTyping(t)
        \/ CreatorReply(t)
        \/ CreatorSave(t)
        \/ GenerateImage(t)
        \/ ImageReply(t)
        \/ ImageSave(t)
        \/ GetMemory(t)
        \/ ChatResponse(t)
        \/ SaveReply(t)
        \/ SendReply(t)
        \/ Welcome(t)

SerialSpec == Init /\ [][SerialNext]_vars

\* ------------------------------------------- the image detection alone
\* Texts for the detection: a keyword, a creator phrase or a near miss, as
\* written, in capitals or cut short, inside some surrounding text.
toUpperCase(s) ==
    [i \in 1..Len(s) |->
        IF \E k \in 1..Len(LowerAlpha) : LowerAlpha[k] = s[i]
        THEN UpperAlpha[CHOOSE k \in 1..Len(LowerAlpha) : LowerAlpha[k] = s[i]]
        ELSE s[i]]

Capitalized(s) ==
    IF s = <<>> THEN s ELSE toUpperCase(SubSeq(s, 1, 1)) \o SubSeq(s, 2, Len(s))

CutShort(s) == SubSeq(s, 1, Len(s) - 1)

ProbeWords ==
    {imageKeywords[k] : k \in 1..Len(imageKeywords)}
        \cup {KwWhoCreatedYou, KwCreator, KwWhoMadeYou}

ProbeMiddles ==
    {<<>>} \cup ProbeWords
        \cup {toUpperCase(w) : w \in ProbeWords}
        \cup {Capitalized(w) : w \in ProbeWords}
        \cup {CutShort(w) : w \in ProbeWords}

ProbePrefixes == {<<>>, <<"P", "l", "e", "a", "s", "e", " ">>, <<"x">>}

ProbeSuffixes == {<<>>, <<" ", "n", "o", "w">>, <<"!">>}

ProbeTexts ==
    {pre \o mid \o suf :
        pre \in ProbePrefixes, mid \in ProbeMiddles, suf \in ProbeSuffixes}
        \cup {TxtDraw, TxtWeather, TxtBoth, TxtHello}

\* The text handler's lowerText and wantsImage for one text.
ClassifyProbe ==
    /\ ~probe.done
    /\ \E text \in ProbeTexts :
          probe' = [done |-> TRUE, text |-> text,
                    lowerText |-> toLowerCase(text),
                    wantsImage |-> wantsImage(toLowerCase(text))]
    /\ UNCHANGED <<users, messages, turn, started, faults, variant>>

ClassifierSpec == Init /\ [][ClassifyProbe]_vars

\* ------------------------------------------------- reading a turn's log
TextTurns == {t \in TurnIds : turn[t].kind = "text"}

LogIdx(t) == 1..Len(turn[t].log)

Saves(t, role) ==
    {i \in LogIdx(t) : turn[t].log[i].op = "saveMessage"
                       /\ turn[t].log[i].role = role}

Replies(t) ==
    {i \in LogIdx(t) : turn[t].log[i].op \in {"reply", "replyWithPhoto"}}

BackendCalls(t) ==
    {i \in LogIdx(t) :
        turn[t].log[i].op \in {"generateAIImage", "generateAIResponse"}}

StoreOps == {"findUser", "insertUser", "saveMessage", "getConversationMemory"}

TransportOps == {"sendChatAction", "reply", "replyWithPhoto"}

\* Every store call of the turn so far was served (a rejected duplicate
\* insert is served).
StoreServed(t) ==
    \A i \in LogIdx(t) :
        turn[t].log[i].op \in StoreOps =>
            turn[t].log[i].ok \/ turn[t].log[i].extra = UniqueViolation

\* A request to a generation backend is out or answered: generateAIImage and
\* generateAIResponse post theirs in the step that leads to these places.
BackendCalled(t) ==
    turn[t].pc \in {"generateImage", "chatResponse"} \/ BackendCalls(t) # {}

HasRow(user_id, role, content) ==
    \E i \in 1..Len(messages) :
        messages[i] = [user_id |-> user_id, role |-> role, content |-> content]

\* ----------------------------------------------------------------- claims

\* C1: once a text turn has finished, exactly one "user" row and exactly one
\* "bot" row have been inserted by it, on every path and for every backend
\* and transport outcome (the store serving every call).
C1_ExactlyOnePair ==
    \A t \in TextTurns :
        (Finished(t) /\ StoreServed(t)) =>
            /\ Cardinality({i \in Saves(t, "user") : turn[t].log[i].ok}) = 1
            /\ Cardinality({i \in Saves(t, "bot") : turn[t].log[i].ok}) = 1

\* C2: a text turn never stops short of Delivered: when it has finished, a
\* bot row has been persisted and a reply has been handed to the transport.
C2_EndsDelivered ==
    \A t \in TextTurns :
        (Finished(t) /\ StoreServed(t)) =>
            /\ \E i \in Saves(t, "bot") : turn[t].log[i].ok
            /\ Replies(t) # {}

\* C3: the insert of the inbound "user" row comes before any call of a
\* generation backend in the turn; if the insert was served the row is stored
\* by then.
C3_UserRowBeforeBackend ==
    \A t \in TextTurns :
        BackendCalled(t) =>
            /\ Cardinality(Saves(t, "user")) = 1
            /\ \A i \in Saves(t, "user") :
                  /\ \A j \in BackendCalls(t) : i < j
                  /\ turn[t].log[i].content = turn[t].text
                  /\ turn[t].log[i].ok =>
                        HasRow(turn[t].from.id, "user", turn[t].text)

\* C3 witness: the image request is out and the inbound row is stored.
C3_Witness ==
    \E t \in TextTurns :
        /\ turn[t].pc = "generateImage"
        /\ HasRow(turn[t].from.id, "user", turn[t].text)

\* C4: on every path the bot row is persisted before the reply is handed to
\* the transport.
C4_LoggedBeforeDelivered ==
    \A t \in TextTurns :
        \A i \in Replies(t) : \E j \in Saves(t, "bot") : j < i

\* The context the claim describes, from the table as it was when the
\* history was read: the system instruction, the last min(n, 5) rows of the
\* user oldest first, the current message.
RowsOf(msgs, user_id) == SelectSeq(msgs, LAMBDA m : m.user_id = user_id)

Min(a, b) == IF a < b THEN a ELSE b

ClaimedContext(t) ==
    LET rows == RowsOf(turn[t].seen, turn[t].from.id)
        n == Len(rows)
        k == Min(n, 5)
    IN  <<[role |-> "system", content |-> turn[t].context[1].content]>>
        \o [i \in 1..k |-> [role |-> rows[n - k + i].role,
                            content |-> rows[n - k + i].content]]
        \o <<[role |-> "user", content |-> turn[t].text]>>

ClaimedLength(t) ==
    LET n == Len(RowsOf(turn[t].seen, turn[t].from.id))
    IN  IF n <= 5 THEN n + 2 ELSE 7

HistoryReadOk(t) ==
    \E i \in LogIdx(t) :
        turn[t].log[i].op = "getConversationMemory" /\ turn[t].log[i].ok

\* C5: for every user and every number n of rows stored for the user when
\* the history query is answered, the context built for the chat backend is
\* the system instruction, then the last min(n, 5) rows of the user oldest
\* first, then the current message; its length is n + 2 for n <= 5, else 7.
C5_ContextWindow ==
    \A t \in TextTurns :
        HistoryReadOk(t) =>
            /\ turn[t].context = ClaimedContext(t)
            /\ turn[t].context[1].content \in {SystemPrompt, SystemPromptTs}
            /\ Len(turn[t].context) = ClaimedLength(t)

\* C5 witness: a context of 7 entries built from more than 5 stored rows,
\* among them rows of the current conversation.
C5_Witness ==
    \E t \in TextTurns :
        /\ HistoryReadOk(t)
        /\ Len(RowsOf(turn[t].seen, turn[t].from.id)) > 5
        /\ Len(turn[t].context) = 7
        /\ turn[t].context[6].content = turn[t].text

\* registerUser has returned in turn t.
Registered(t) ==
    /\ turn[t].kind \in {"text", "start"}
    /\ turn[t].pc \notin {"registerUser", "insertUser"}

InsertsIssued(t) == {i \in LogIdx(t) : turn[t].log[i].op = "insertUser"}

\* C6: registerUser is idempotent: after a call (the store serving it) exactly
\* one User row has its id, and a call that starts when the row is stored is a
\* no-op: it issues no insert and leaves the row as it was.
C6_RegisterIdempotent ==
    \A t \in TurnIds :
        (Registered(t) /\ StoreServed(t)) =>
            /\ Cardinality(selectUser(users, turn[t].from.id)) = 1
            /\ turn[t].rowSeen # {} =>
                  /\ InsertsIssued(t) = {}
                  /\ selectUser(users, turn[t].from.id) = turn[t].rowSeen

\* C6 witness: a second call for an id returned, the first having stored
\* the row.
C6_Witness ==
    \E t1, t2 \in TurnIds :
        /\ t1 # t2
        /\ turn[t1].from.id = turn[t2].from.id
        /\ Registered(t1) /\ Registered(t2)
        /\ \E i \in InsertsIssued(t1) : turn[t1].log[i].ok
        /\ turn[t2].rowSeen # {}
        /\ StoreServed(t2)

\* The phrases the claims name, on the lower-cased text.
CreatorPhrases == {KwWhoCreatedYou, KwCreator, KwWhoMadeYou}

MentionsCreator(text) ==
    \E w \in CreatorPhrases : includes(toLowerCase(text), w)

CreatorTexts == {text \in Texts : MentionsCreator(text)}

ImagePlaces == {"generateImage", "imageReply", "imageSave"}

TextPlaces == {"getMemory", "chatResponse", "saveReply", "sendReply"}

LastEvent(t) == turn[t].log[Len(turn[t].log)]

\* C7: a message that names the creator takes the creator branch even when it
\* also holds an image keyword: no backend is called for it, and what it
\* replies and what it stores as the bot's message is the canned creator text.
C7_CreatorPriority ==
    \A t \in TextTurns :
        turn[t].text \in CreatorTexts =>
            /\ turn[t].pc \notin ImagePlaces \cup TextPlaces
            /\ BackendCalls(t) = {}
            /\ \A i \in Replies(t) :
                  /\ turn[t].log[i].op = "reply"
                  /\ turn[t].log[i].content = creatorReply
            /\ \A i \in Saves(t, "bot") :
                  turn[t].log[i].content = creatorReply
            /\ turn[t].pc = "done" =>
                  Replies(t) # {} /\ Saves(t, "bot") # {}

\* C7 witness: "please draw who created you" was answered with the creator
\* text, which is stored as the bot's row.
C7_Witness ==
    \E t \in TextTurns :
        /\ turn[t].text = TxtBoth
        /\ includes(turn[t].lowerText, <<"d", "r", "a", "w">>)
        /\ turn[t].pc = "done"
        /\ \E i \in Replies(t) : turn[t].log[i].content = creatorReply
        /\ HasRow(turn[t].from.id, "bot", creatorReply)

\* C8: on the image branch, when generateAIImage yields no locator (the
\* request failed or the response holds no url) the reply is the fixed failure
\* text and the bot content stored is the failure marker, never a locator;
\* when it yields a locator the reply is the photo of that locator with the
\* fixed caption and the bot content stored is the locator.
C8_ImageOutcome ==
    \A t \in TextTurns :
        \A c \in LogIdx(t) :
            turn[t].log[c].op = "generateAIImage" =>
                LET located == turn[t].log[c].ok /\ Truthy(turn[t].log[c].extra)
                    url == turn[t].log[c].extra
                IN  /\ \A i \in Replies(t) :
                          IF located
                          THEN /\ turn[t].log[i].op = "replyWithPhoto"
                               /\ turn[t].log[i].content = url
                               /\ turn[t].log[i].extra = ImageCaption
                          ELSE /\ turn[t].log[i].op = "reply"
                               /\ turn[t].log[i].content = ImageFailReply
                    /\ \A i \in Saves(t, "bot") :
                          turn[t].log[i].content =
                              IF located THEN url ELSE ImageFailMarker
                    /\ turn[t].pc = "done" =>
                          Replies(t) # {} /\ Saves(t, "bot") # {}
                    /\ turn[t].pc = "aborted" =>
                          LastEvent(t).op \in TransportOps /\ ~LastEvent(t).ok

\* C8 witness: the image backend failed, the failure text was replied and the
\* marker is stored.
C8_Witness ==
    \E t \in TextTurns :
        /\ turn[t].pc = "done"
        /\ \E c \in LogIdx(t) :
              turn[t].log[c].op = "generateAIImage" /\ ~turn[t].log[c].ok
        /\ \E i \in Replies(t) : turn[t].log[i].content = ImageFailReply
        /\ HasRow(turn[t].from.id, "bot", ImageFailMarker)

\* C9: on the text branch the bot content stored is the reply handed to the
\* transport, for every outcome of the chat backend: the fallback text when
\* the request failed, the warning text when the response holds no content,
\* the content otherwise; the failure does not end the handler.
C9_TextReplyPersisted ==
    \A t \in TextTurns :
        \A c \in LogIdx(t) :
            turn[t].log[c].op = "generateAIResponse" =>
                LET x == IF ~turn[t].log[c].ok THEN AiIssue
                         ELSE IF Truthy(turn[t].log[c].extra)
                              THEN turn[t].log[c].extra
                              ELSE NoResponse
                IN  /\ \A i \in Saves(t, "bot") : turn[t].log[i].content = x
                    /\ \A i \in Replies(t) :
                          /\ turn[t].log[i].op = "reply"
                          /\ turn[t].log[i].content = x
                    /\ Replies(t) # {} => Saves(t, "bot") # {}
                    /\ turn[t].pc = "done" => Replies(t) # {}
                    /\ turn[t].pc = "aborted" =>
                          LastEvent(t).op = "reply" /\ ~LastEvent(t).ok

\* C9 witness: the chat request failed; the fallback text is stored as the
\* bot's row and was replied.
C9_Witness ==
    \E t \in TextTurns :
        /\ turn[t].pc = "done"
        /\ \E c \in LogIdx(t) :
              turn[t].log[c].op = "generateAIResponse" /\ ~turn[t].log[c].ok
        /\ \E i \in Replies(t) : turn[t].log[i].content = AiIssue
        /\ HasRow(turn[t].from.id, "bot", AiIssue)

\* The keywords the claim names, and "contains, whatever the case", letter by
\* letter.
ImageWords ==
    { <<"i", "m", "a", "g", "e">>, <<"p", "h", "o", "t", "o">>,
      <<"p", "i", "c", "t", "u", "r", "e">>, <<"s", "h", "o", "w", " ", "m", "e">>,
      <<"d", "r", "a", "w">>, <<"g", "e", "n", "e", "r", "a", "t", "e">> }

SameLetter(a, b) ==
    \/ a = b
    \/ \E k \in 1..Len(UpperAlpha) :
          {a, b} = {UpperAlpha[k], LowerAlpha[k]}

ContainsAnyCase(s, w) ==
    \E i \in 0..Len(s) :
        /\ i + Len(w) <= Len(s)
        /\ \A j \in 1..Len(w) : SameLetter(s[i + j], w[j])

\* C10: the image detection is total and case-insensitive: for every text,
\* the empty one included, it answers image_request (wantsImage) exactly when
\* the text holds, in any case, one of image, photo, picture, show me, draw,
\* generate, and text_request otherwise.
C10_IntentClassification ==
    probe.done =>
        /\ probe.wantsImage \in BOOLEAN
        /\ probe.wantsImage <=>
              \E w \in ImageWords : ContainsAnyCase(probe.text, w)
        /\ probe.text = TxtDraw => probe.wantsImage
        /\ probe.text \in {TxtWeather, <<>>} => ~probe.wantsImage

\* C10 witness: "Draw me a cat", with its capital D, is an image request.
C10_Witness ==
    /\ probe.done
    /\ probe.text = TxtDraw
    /\ probe.wantsImage

\* A store call of the turn failed (the store did not serve it).
StoreFailed(t) ==
    \E i \in LogIdx(t) :
        /\ turn[t].log[i].op \in {"findUser", "insertUser", "saveMessage"}
        /\ ~turn[t].log[i].ok
        /\ turn[t].log[i].extra # UniqueViolation

\* C11: no store failure aborts a turn: a failed user lookup, user insert or
\* Message insert never ends the handler (a handler is only ever ended by a
\* rejected transport call), and a turn in which one failed still ends, the
\* transport accepting its calls, with a reply handed over.
C11_StoreFailureTolerated ==
    \A t \in TextTurns :
        /\ turn[t].pc = "aborted" =>
              LastEvent(t).op \in TransportOps /\ ~LastEvent(t).ok
        /\ (StoreFailed(t) /\ Len(turn[t].log) > 0
                /\ LastEvent(t).op \in StoreOps /\ ~LastEvent(t).ok) =>
              turn[t].pc # "aborted"
        /\ (StoreFailed(t) /\ turn[t].pc = "done") =>
              \E i \in Replies(t) : turn[t].log[i].ok \/ variant = "part_000"

\* C11 witness: the insert of the inbound row failed and the turn ended with
\* its reply delivered.
C11_Witness ==
    \E t \in TextTurns :
        /\ turn[t].pc = "done"
        /\ \E i \in Saves(t, "user") : ~turn[t].log[i].ok
        /\ \E i \in Replies(t) : turn[t].log[i].ok

HistoryReadFailed(t) ==
    \E i \in LogIdx(t) :
        turn[t].log[i].op = "getConversationMemory" /\ ~turn[t].log[i].ok

\* C12: a failed history query is read as an empty history and ends
\* nothing: the chat backend is then called with exactly the system
\* instruction followed by the current message.
C12_FailedReadIsEmptyHistory ==
    \A t \in TextTurns :
        HistoryReadFailed(t) =>
            /\ Len(turn[t].context) = 2
            /\ turn[t].context[1].role = "system"
            /\ turn[t].context[1].content \in {SystemPrompt, SystemPromptTs}
            /\ turn[t].context[2] = [role |-> "user", content |-> turn[t].text]
            /\ BackendCalled(t)
            /\ turn[t].pc = "aborted" =>
                  LastEvent(t).op = "reply" /\ ~LastEvent(t).ok

\* C12 witness: the query failed with rows of the user stored, and the chat
\* backend has answered the two-entry context.
C12_Witness ==
    \E t \in TextTurns :
        /\ HistoryReadFailed(t)
        /\ Len(RowsOf(turn[t].seen, turn[t].from.id)) > 0
        /\ \E c \in LogIdx(t) : turn[t].log[c].op = "generateAIResponse"
        /\ Len(turn[t].context) = 2

Calls(t, op) == {i \in LogIdx(t) : turn[t].log[i].op = op}

\* The messages the handler answers on its creator and on its image branch.
CreatorPathTexts == {x \in Texts : Classify(toLowerCase(x)) = "creator"}

ImagePathTexts == {x \in Texts : Classify(toLowerCase(x)) = "image"}

\* The handler got past sendChatAction, so it reached its dispatch.
Dispatched(t) ==
    \E i \in Calls(t, "sendChatAction") : turn[t].log[i].ok

\* C13: the backends are dispatched exclusively. A creator turn calls
\* neither backend; an image turn calls the image backend exactly once, with
\* the message as typed, and neither the chat backend nor the history query;
\* a text turn calls the chat backend exactly once and never the image
\* backend. (Exactly once is of a handler that reached its dispatch and has
\* ended.)
C13_ExclusiveDispatch ==
    \A t \in TextTurns :
        LET path   == IF turn[t].text \in CreatorPathTexts THEN "creator"
                      ELSE IF turn[t].text \in ImagePathTexts THEN "image"
                      ELSE "text"
            images == Calls(t, "generateAIImage")
            chats  == Calls(t, "generateAIResponse")
            reads  == Calls(t, "getConversationMemory")
        IN  /\ path = "creator" => images = {} /\ chats = {} /\ reads = {}
            /\ path = "image" =>
                  /\ chats = {} /\ reads = {}
                  /\ Cardinality(images) <= 1
                  /\ \A i \in images : turn[t].log[i].content = turn[t].text
                  /\ (Dispatched(t) /\ Finished(t)) =>
                        Cardinality(images) = 1
            /\ path = "text" =>
                  /\ images = {}
                  /\ Cardinality(chats) <= 1
                  /\ (Dispatched(t) /\ Finished(t)) =>
                        Cardinality(chats) = 1

\* C13 witness: an image turn has ended after its one call of the image
\* backend, made with a text whose lowered form differs from it.
C13_Witness ==
    \E t \in TextTurns :
        /\ turn[t].text \in ImagePathTexts
        /\ turn[t].pc = "done"
        /\ turn[t].text # turn[t].lowerText
        /\ Cardinality(Calls(t, "generateAIImage")) = 1

\* C14: a stored User row is never changed or removed, whatever username or
\* first_name later messages and /start commands of the same id carry.
C14_UserRowsKept == [][users \subseteq users']_vars

\* C14 witness: Ann's row is stored as first written, and a turn that came
\* with the same id under another name has issued its own insert and ended.
C14_Witness ==
    /\ Ann \in users
    /\ \E t \in TurnIds :
          /\ turn[t].from = AnnRenamed
          /\ turn[t].pc = "done"
          /\ Calls(t, "insertUser") # {}

TurnRows ==
    SelectSeq(messages, LAMBDA m : m \notin {SeedRow(i) : i \in 1..MaxSeed})

Alternating(rows) ==
    /\ Len(rows) % 2 = 0
    /\ \A i \in 1..Len(rows) :
          rows[i].role = IF i % 2 = 1 THEN "user" ELSE "bot"

\* C16 (turns one after another): when turns are handled one at a time,
\* every turn leaves the rows of each user strictly alternating user, bot.
C16_SerialTurnsAlternate ==
    Quiet => \A p \in Profiles : Alternating(RowsOf(TurnRows, p.id))

\* C16 (concurrent turns): two turns of one user have both ended with all
\* four rows stored, both user rows ahead of both bot rows.
C16_RowsInterleaved ==
    \E p \in Profiles :
        LET rows == RowsOf(TurnRows, p.id)
        IN  /\ \A t \in TurnIds : turn[t].kind = "text" /\ turn[t].pc = "done"
                                  /\ turn[t].from = p
            /\ Len(rows) = 4
            /\ rows[1].role = "user" /\ rows[2].role = "user"
            /\ rows[3].role = "bot" /\ rows[4].role = "bot"

\* What one step of turn t may touch: it appends only rows of its own user,
\* leaves the rows and the User row of every other user as they were, and
\* the context it assembles is the one it would assemble from its own
\* user's rows alone.
OwnUserStep(t) ==
    LET id == turn'[t].from.id
    IN  /\ \A i \in (Len(messages) + 1)..Len(messages') :
              messages'[i].user_id = id
        /\ \A p \in Profiles :
              p.id # id =>
                  /\ RowsOf(messages', p.id) = RowsOf(messages, p.id)
                  /\ selectUser(users', p.id) = selectUser(users, p.id)
        /\ turn[t].pc = "getMemory" =>
              turn'[t].context =
                  buildMessages(variant,
                      getConversationMemory(RowsOf(messages, id), id,
                          turn'[t].log[Len(turn'[t].log)].ok),
                      turn'[t].text)

\* C17: turns of different users are independent. Every step of a turn for
\* user U inserts only rows of U and reads only rows of U: the rows of the
\* other users are untouched by it, and its context is what the rows of U
\* alone give, whatever rows other users' turns have stored in between.
C17_UsersIndependent ==
    [][\A t \in TurnIds : turn'[t] # turn[t] => OwnUserStep(t)]_vars

\* C17 witness: a turn has assembled its context from a store that held a
\* row of another user, and has stored its own rows.
C17_Witness ==
    \E t \in TextTurns :
        /\ turn[t].pc = "done"
        /\ Len(turn[t].context) > 2
        /\ \E i \in 1..Len(turn[t].seen) :
              turn[t].seen[i].user_id # turn[t].from.id
        /\ \E i \in Saves(t, "bot") : turn[t].log[i].ok

\* C18: the long-poll and the webhook variants are one per-turn machine: on
\* the same message, store contents and outcomes of the backend and the
\* transport, a turn ends in the state in which every variant ends it. (The
\* store writes, backend calls and reply hand-offs are the same steps in all
\* three; the end of the handler after its last reply is where they could
\* differ.)
C18_VariantsEndAlike ==
    \A t \in TextTurns :
        (/\ Finished(t)
         /\ Calls(t, "generateAIResponse") # {}
         /\ LastEvent(t).op = "reply") =>
            \A v \in Variants :
                turn[t].pc = afterSendReply(v, LastEvent(t).ok)

\* The context of turn t has been assembled.
Assembled(t) == Len(turn[t].context) > 0

UserSaved(t) == \E i \in Saves(t, "user") : turn[t].log[i].ok

CurrentEntry(t) == [role |-> "user", content |-> turn[t].text]

\* The places of the context, between the system instruction and the final
\* element, that hold the current message.
HistoryCopies(t) ==
    {i \in 2..(Len(turn[t].context) - 1) : turn[t].context[i] = CurrentEntry(t)}

\* How many rows of the user were stored behind the turn's own user row when
\* the history was read (MemoryLimit when the row is not there).
OwnRowAge(t) ==
    LET rows == RowsOf(turn[t].seen, turn[t].from.id)
        own  == {j \in 1..Len(rows) : rows[j].role = "user"
                                      /\ rows[j].content = turn[t].text}
    IN  IF own = {} THEN MemoryLimit
        ELSE Len(rows) - (CHOOSE j \in own : \A k \in own : k <= j)

\* C19 as stated: on the text path, whenever the insert of the user row
\* succeeded, the context holds the current text twice, in the history and
\* as the final element.
C19_TwiceWheneverSaved ==
    \A t \in TextTurns :
        (Assembled(t) /\ UserSaved(t)) =>
            /\ turn[t].context[Len(turn[t].context)] = CurrentEntry(t)
            /\ HistoryCopies(t) # {}

\* C19 amended: on the text path, when the insert of the user row succeeded,
\* the history query was answered and fewer than 5 rows of the user were
\* stored in between, the context holds the current text in the history
\* (as its newest entry when nothing was stored in between) and again as
\* the final element, so at most 4 of the 5 history entries are rows of
\* earlier turns.
C19_TwiceWhenSavedAndRead ==
    \A t \in TextTurns :
        (/\ Assembled(t) /\ UserSaved(t) /\ HistoryReadOk(t)
         /\ OwnRowAge(t) < MemoryLimit) =>
            LET n == Len(turn[t].context)
            IN  /\ turn[t].context[n] = CurrentEntry(t)
                /\ HistoryCopies(t) # {}
                /\ OwnRowAge(t) = 0 => (n - 1) \in HistoryCopies(t)
                /\ Cardinality((2..(n - 1)) \ HistoryCopies(t)) <= MemoryLimit - 1

\* C19 witness: a full history of 5 entries, the newest of them the current
\* message and the other 4 rows of earlier turns.
C19_Witness ==
    \E t \in TextTurns :
        /\ UserSaved(t) /\ HistoryReadOk(t)
        /\ Len(turn[t].context) = MemoryLimit + 2
        /\ turn[t].context[MemoryLimit + 1] = CurrentEntry(t)
        /\ Cardinality((2..(MemoryLimit + 1)) \ HistoryCopies(t)) = MemoryLimit - 1
        /\ Calls(t, "generateAIResponse") # {}

\* The insert of turn t was rejected because the id was stored meanwhile.
LostInsertRace(t) ==
    \E i \in Calls(t, "insertUser") : turn[t].log[i].extra = UniqueViolation

====
